---- MODULE Spec2Model ----
(***************************************************************************)
(* Lost-and-found registry (Flask application, app.py): the user and item  *)
(* tables, the browser sessions, the password-reset tokens, and one action *)
(* per route handler.                                                      *)
(***************************************************************************)
EXTENDS Integers, Sequences, FiniteSets, TLC

VARIABLES
    users,      \* table user: sequence of rows, the row's id is its index
    items,      \* table item: function from the ids in use to the rows
    session,    \* per browser: the user id the session is bound to, 0 = anonymous
    pending,    \* per browser: a register request between its query and its commit
    issued,     \* reset tokens printed on the server console
    now,        \* the clock, in seconds
    ticks,      \* how many times the clock has advanced
    last,       \* the response to the most recent request
    consumed    \* history: the tokens a successful reset has been made with

vars == <<users, items, session, pending, issued, now, ticks, last, consumed>>

----------------------------------------------------------------------------
(* Bounds and input sets *)

MaxUsers == 2
MaxTokens == 1
MaxTicks == 3
MaxItemId == 4

Clients == {"c1", "c2"}
Names == {"Ann"}
Emails == {"a@x.org", "b@x.org"}
Passwords == {"pw1", "pw2"}
Salts == {"s1", "s2"}
ItemTypes == {"Lost", "Found"}
Deltas == {1, 3599}
Methods == {"GET", "POST"}

MAX_AGE == 3600

None == [none |-> TRUE]

----------------------------------------------------------------------------
(* werkzeug.security: a salted one-way hash.  The digest is an injective   *)
(* function of (salt, password); the stored value carries method and salt. *)

Pbkdf2(salt, password) == <<"sha256", salt, password>>

generate_password_hash(password, salt) ==
    [method |-> "pbkdf2:sha256", salt |-> salt, digest |-> Pbkdf2(salt, password)]

check_password_hash(pwhash, password) ==
    Pbkdf2(pwhash.salt, password) = pwhash.digest

----------------------------------------------------------------------------
(* itsdangerous.URLSafeTimedSerializer with salt "password-reset" *)

Token(uid, ts, sig) == [uid |-> uid, ts |-> ts, sig |-> sig]

\* serializer.dumps(user.id, salt="password-reset")
dumps(uid) == Token(uid, now, "good")

\* a token whose signature does not verify under the secret key and salt
Forged(tok) == [tok EXCEPT !.sig = "bad"]

\* mutant: the age test is off by one second
loads_OffByOne(tok) ==
    IF tok.sig # "good" THEN [exc |-> "BadSignature", uid |-> 0]
    ELSE IF now - tok.ts >= MAX_AGE THEN [exc |-> "SignatureExpired", uid |-> 0]
    ELSE [exc |-> "", uid |-> tok.uid]

\* serializer.loads(token, salt="password-reset", max_age=3600): the signature is
\* verified first, then the age
loads(tok) ==
    IF tok.sig # "good" THEN [exc |-> "BadSignature", uid |-> 0]
    ELSE IF now - tok.ts > MAX_AGE THEN [exc |-> "SignatureExpired", uid |-> 0]
    ELSE [exc |-> "", uid |-> tok.uid]

----------------------------------------------------------------------------
(* Queries *)

SetMin(S) == CHOOSE x \in S : \A y \in S : x <= y
SetMax(S) == CHOOSE x \in S : \A y \in S : y <= x

\* User.query.filter_by(email=email).first(); 0 when there is no such row
UserByEmail(email) ==
    LET S == {i \in DOMAIN users : users[i].email = email}
    IN  IF S = {} THEN 0 ELSE SetMin(S)

\* mutant: the column carries no UNIQUE constraint
EmailUnique_Dropped(email) == TRUE

\* the UNIQUE constraint of user.email, enforced by the store at commit
EmailUnique(email) == \A i \in DOMAIN users : users[i].email # email

\* load_user / current_user: the session's user id re-resolved against the table
current_user(c) == IF session[c] \in DOMAIN users THEN session[c] ELSE 0

\* the rowid SQLite assigns to an INTEGER PRIMARY KEY row: largest id in use + 1
NextItemId == IF DOMAIN items = {} THEN 1 ELSE SetMax(DOMAIN items) + 1

\* Item.query.filter_by(field=value): the ids of the rows that satisfy the filter
filter_by(field, value) == {i \in DOMAIN items : items[i][field] = value}

\* Query.count(): the rows of the result, counted one at a time
RECURSIVE count(_)
count(ids) ==
    IF ids = {} THEN 0
    ELSE LET i == SetMin(ids) IN 1 + count(ids \ {i})

\* mutant: lost and found are counted among the requesting user's rows only
stats_PerUser(uid) ==
    [total    |-> count(DOMAIN items),
     lost     |-> count(filter_by("type", "Lost") \cap filter_by("user_id", uid)),
     found    |-> count(filter_by("type", "Found") \cap filter_by("user_id", uid)),
     resolved |-> count(filter_by("is_resolved", TRUE)),
     mine     |-> count(filter_by("user_id", uid))]

\* the stats dictionary of the dashboard
stats(uid) ==
    [total    |-> count(DOMAIN items),
     lost     |-> count(filter_by("type", "Lost")),
     found    |-> count(filter_by("type", "Found")),
     resolved |-> count(filter_by("is_resolved", TRUE)),
     mine     |-> count(filter_by("user_id", uid))]

----------------------------------------------------------------------------
(* Responses *)

Resp(op, status, flash, body) ==
    [op |-> op, status |-> status, flash |-> flash, body |-> body]

\* @login_required on an anonymous session: redirect to the login view
Unauthorized(op) == Resp(op, 302, "Please log in to access this page.", "login")

----------------------------------------------------------------------------
Init ==
    /\ users = << >>
    /\ items = << >>
    /\ session = [c \in Clients |-> 0]
    /\ pending = [c \in Clients |-> None]
    /\ issued = {}
    /\ now = 0
    /\ ticks = 0
    /\ last = Resp("", 0, "", "")
    /\ consumed = {}

\* the clock advances
Tick(d) ==
    /\ ticks < MaxTicks
    /\ now' = now + d
    /\ ticks' = ticks + 1
    /\ UNCHANGED <<users, items, session, pending, issued, last, consumed>>

----------------------------------------------------------------------------
(* Account routes *)

\* POST /register, up to the duplicate-email query
register_query(c, name, email, password) ==
    /\ pending[c] = None
    /\ IF UserByEmail(email) # 0
       THEN /\ last' = Resp("register", 302, "Email already registered!", "register")
            /\ UNCHANGED pending
       ELSE /\ Len(users) + Cardinality({k \in Clients : pending[k] # None}) < MaxUsers
            /\ pending' = [pending EXCEPT ![c] =
                              [name |-> name, email |-> email, password |-> password]]
            /\ UNCHANGED last
    /\ UNCHANGED <<users, items, session, issued, now, ticks, consumed>>

\* POST /register, from the construction of the row to the commit
register_commit(c, salt) ==
    /\ pending[c] # None
    /\ LET r == pending[c]
       IN  IF EmailUnique(r.email)
           THEN /\ users' = Append(users,
                        [name |-> r.name, email |-> r.email,
                         password |-> generate_password_hash(r.password, salt)])
                /\ last' = Resp("register", 302,
                                "Registration successful! Please log in.", "login")
           ELSE /\ users' = users
                /\ last' = Resp("register", 500, "", "IntegrityError")
    /\ pending' = [pending EXCEPT ![c] = None]
    /\ UNCHANGED <<items, session, issued, now, ticks, consumed>>

\* mutant: the password is not verified
login_NoCheck(c, email, password) ==
    /\ LET user == UserByEmail(email)
       IN  IF user # 0
           THEN /\ session' = [session EXCEPT ![c] = user]
                /\ last' = Resp("login", 302, "", "dashboard")
           ELSE /\ session' = session
                /\ last' = Resp("login", 200, "Invalid credentials", "login.html")
    /\ UNCHANGED <<users, items, pending, issued, now, ticks, consumed>>

\* POST /login
login(c, email, password) ==
    /\ LET user == UserByEmail(email)
       IN  IF user # 0 /\ check_password_hash(users[user].password, password)
           THEN /\ session' = [session EXCEPT ![c] = user]
                /\ last' = Resp("login", 302, "", "dashboard")
           ELSE /\ session' = session
                /\ last' = Resp("login", 200, "Invalid credentials", "login.html")
    /\ UNCHANGED <<users, items, pending, issued, now, ticks, consumed>>

\* GET /logout
logout(c) ==
    /\ IF current_user(c) = 0
       THEN /\ last' = Unauthorized("logout")
            /\ UNCHANGED session
       ELSE /\ session' = [session EXCEPT ![c] = 0]
            /\ last' = Resp("logout", 302, "", "login")
    /\ UNCHANGED <<users, items, pending, issued, now, ticks, consumed>>

\* POST /forgot_password
forgot_password(email) ==
    /\ LET user == UserByEmail(email)
       IN  IF user # 0
           THEN /\ dumps(user) \in issued \/ Cardinality(issued) < MaxTokens
                /\ issued' = issued \cup {dumps(user)}
                /\ last' = Resp("forgot_password", 302,
                       "Password reset link has been generated (check server console).",
                       "login")
           ELSE /\ issued' = issued
                /\ last' = Resp("forgot_password", 302, "Email not found!", "login")
    /\ UNCHANGED <<users, items, session, pending, now, ticks, consumed>>

\* GET or POST /reset_password/<token>
reset_password(tok, method, new_password, confirm_password, salt) ==
    /\ LET r == loads(tok)
       IN  IF r.exc # ""
           THEN /\ last' = Resp("reset_password", 302,
                                "Invalid or expired reset link!", r.exc)
                /\ UNCHANGED <<users, consumed>>
           ELSE IF r.uid \notin DOMAIN users
           THEN /\ last' = Resp("reset_password", 302, "User not found!", "login")
                /\ UNCHANGED <<users, consumed>>
           ELSE IF method # "POST"
           THEN /\ last' = Resp("reset_password", 200, "", "reset_password.html")
                /\ UNCHANGED <<users, consumed>>
           ELSE IF new_password # confirm_password
           THEN /\ last' = Resp("reset_password", 302, "Passwords do not match!",
                                "reset_password")
                /\ UNCHANGED <<users, consumed>>
           ELSE /\ users' = [users EXCEPT ![r.uid].password =
                                generate_password_hash(new_password, salt)]
                /\ last' = Resp("reset_password", 302,
                                "Password reset successful! Please log in.", "login")
                /\ consumed' = consumed \cup {tok}
    /\ UNCHANGED <<items, session, pending, issued, now, ticks>>

----------------------------------------------------------------------------
(* Item routes *)

\* POST /add_item
add_item(c, type) ==
    /\ IF current_user(c) = 0
       THEN /\ last' = Unauthorized("add_item")
            /\ UNCHANGED items
       ELSE /\ NextItemId <= MaxItemId
            /\ items' = [i \in DOMAIN items \cup {NextItemId} |->
                            IF i = NextItemId
                            THEN [type |-> type, is_resolved |-> FALSE,
                                  date_reported |-> now, user_id |-> current_user(c)]
                            ELSE items[i]]
            /\ last' = Resp("add_item", 302, "Item reported successfully", "dashboard")
    /\ UNCHANGED <<users, session, pending, issued, now, ticks, consumed>>

\* GET /dashboard
dashboard(c) ==
    /\ IF current_user(c) = 0
       THEN last' = Unauthorized("dashboard")
       ELSE last' = Resp("dashboard", 200, "", stats(current_user(c)))
    /\ UNCHANGED <<users, items, session, pending, issued, now, ticks, consumed>>

\* GET /item/<id>
item_detail(c, item_id) ==
    /\ IF current_user(c) = 0
       THEN last' = Unauthorized("item_detail")
       ELSE IF item_id \notin DOMAIN items
       THEN last' = Resp("item_detail", 404, "", "Not Found")
       ELSE last' = Resp("item_detail", 200, "", items[item_id])
    /\ UNCHANGED <<users, items, session, pending, issued, now, ticks, consumed>>

\* jsonify(...): the name is not among those imported from flask, so evaluating
\* it raises NameError and the request ends in the server-error response
jsonify(payload, status) == Resp("update_status", 500, "", "NameError")

\* mutant: the request marks the item resolved instead of toggling it
toggled_MarkResolved(item) == [item EXCEPT !.is_resolved = TRUE]

\* mutant: the update also refreshes the row's timestamp
toggled_Touch(item) ==
    [item EXCEPT !.is_resolved = ~item.is_resolved, !.date_reported = now]

\* item.is_resolved = not item.is_resolved
toggled(item) == [item EXCEPT !.is_resolved = ~item.is_resolved]

\* POST /update_status/<id>; ajax: X-Requested-With is XMLHttpRequest
update_status(c, item_id, ajax) ==
    /\ IF current_user(c) = 0
       THEN /\ last' = Unauthorized("update_status")
            /\ UNCHANGED items
       ELSE IF item_id \notin DOMAIN items
       THEN /\ last' = Resp("update_status", 404, "", "Not Found")
            /\ UNCHANGED items
       ELSE IF items[item_id].user_id # current_user(c)
       THEN /\ last' = IF ajax
                       THEN jsonify([error |-> "Not allowed"], 403)
                       ELSE Resp("update_status", 302,
                                 "You are not allowed to update this item.", "dashboard")
            /\ UNCHANGED items
       ELSE /\ items' = [items EXCEPT ![item_id] = toggled(items[item_id])]
            /\ last' = IF ajax
                       THEN jsonify([is_resolved |-> items'[item_id].is_resolved], 200)
                       ELSE Resp("update_status", 302, "Item status updated", "dashboard")
    /\ UNCHANGED <<users, session, pending, issued, now, ticks, consumed>>

\* mutant: the owner is not checked
delete_item_AnyUser(c, item_id) ==
    /\ IF current_user(c) = 0
       THEN /\ last' = Unauthorized("delete_item")
            /\ UNCHANGED items
       ELSE IF item_id \notin DOMAIN items
       THEN /\ last' = Resp("delete_item", 404, "", "Not Found")
            /\ UNCHANGED items
       ELSE /\ items' = [i \in DOMAIN items \ {item_id} |-> items[i]]
            /\ last' = Resp("delete_item", 302, "Item deleted successfully", "dashboard")
    /\ UNCHANGED <<users, session, pending, issued, now, ticks, consumed>>

\* POST /delete_item/<id>
delete_item(c, item_id) ==
    /\ IF current_user(c) = 0
       THEN /\ last' = Unauthorized("delete_item")
            /\ UNCHANGED items
       ELSE IF item_id \notin DOMAIN items
       THEN /\ last' = Resp("delete_item", 404, "", "Not Found")
            /\ UNCHANGED items
       ELSE IF items[item_id].user_id # current_user(c)
       THEN /\ last' = Resp("delete_item", 302,
                            "You are not allowed to delete this item.", "dashboard")
            /\ UNCHANGED items
       ELSE /\ items' = [i \in DOMAIN items \ {item_id} |-> items[i]]
            /\ last' = Resp("delete_item", 302, "Item deleted successfully", "dashboard")
    /\ UNCHANGED <<users, session, pending, issued, now, ticks, consumed>>

----------------------------------------------------------------------------
(* Specifications *)

ItemIds == 1..MaxItemId
Tokens == issued \cup {Forged(t) : t \in issued}

AccountNext ==
    \/ \E c \in Clients, n \in Names, e \in Emails, p \in Passwords :
            register_query(c, n, e, p)
    \/ \E c \in Clients, s \in Salts : register_commit(c, s)
    \/ \E c \in Clients, e \in Emails, p \in Passwords : login(c, e, p)
    \/ \E c \in Clients : logout(c)
    \/ \E e \in Emails : forgot_password(e)
    \/ \E t \in Tokens, m \in Methods, p \in Passwords, q \in Passwords,
          s \in Salts : reset_password(t, m, p, q, s)
    \/ \E d \in Deltas : Tick(d)

ItemNext ==
    \/ \E c \in Clients, t \in ItemTypes : add_item(c, t)
    \/ \E c \in Clients : dashboard(c)
    \/ \E c \in Clients, i \in ItemIds : item_detail(c, i)
    \/ \E c \in Clients, i \in ItemIds, ajax \in BOOLEAN : update_status(c, i, ajax)
    \/ \E c \in Clients, i \in ItemIds : delete_item(c, i)

Next == AccountNext \/ ItemNext

Spec == Init /\ [][Next]_vars

\* registration and login, from the empty store
RegisterNext ==
    \/ \E c \in Clients, n \in Names, e \in Emails, p \in Passwords :
            register_query(c, n, e, p)
    \/ \E c \in Clients, s \in Salts : register_commit(c, s)
    \/ \E c \in Clients, e \in Emails, p \in Passwords : login(c, e, p)
    \/ \E c \in Clients : logout(c)

SpecAccounts == Init /\ [][RegisterNext]_vars

\* a row of table user as register_commit stores it
Row(e, p, s) ==
    [name |-> "Ann", email |-> e, password |-> generate_password_hash(p, s)]

\* two users have registered, nobody is logged in
Registered ==
    /\ users = <<Row("a@x.org", "pw1", "s1"), Row("b@x.org", "pw2", "s2")>>
    /\ items = << >>
    /\ pending = [c \in Clients |-> None]
    /\ issued = {}
    /\ now = 0
    /\ last = Resp("", 0, "", "")
    /\ consumed = {}

\* the password-reset flow of registered users; logins come from one browser
ResetInit ==
    /\ Registered
    /\ session = [c \in Clients |-> 0]
    /\ ticks = 0

ResetNext ==
    \/ \E e \in Emails, p \in Passwords : login("c1", e, p)
    \/ \E e \in Emails : forgot_password(e)
    \/ \E t \in Tokens, m \in Methods, p \in Passwords, q \in Passwords,
          s \in Salts : reset_password(t, m, p, q, s)
    \/ \E d \in Deltas : Tick(d)

SpecReset == ResetInit /\ [][ResetNext]_vars

\* the item registry used by two logged-in users, each in a browser
ItemsInit ==
    /\ Registered
    /\ session = [c \in Clients |-> IF c = "c1" THEN 1 ELSE 2]
    /\ ticks = 0

SpecItems == ItemsInit /\ [][ItemNext]_vars

\* the same with a clock that has one advance left
ClockInit ==
    /\ Registered
    /\ session = [c \in Clients |-> IF c = "c1" THEN 1 ELSE 2]
    /\ ticks = MaxTicks - 1

\* every report is of a Lost item
ClockNext ==
    \/ \E c \in Clients : add_item(c, "Lost")
    \/ \E c \in Clients : dashboard(c)
    \/ \E c \in Clients, i \in ItemIds : item_detail(c, i)
    \/ \E c \in Clients, i \in ItemIds, ajax \in BOOLEAN : update_status(c, i, ajax)
    \/ \E c \in Clients, i \in ItemIds : delete_item(c, i)
    \/ \E d \in Deltas : Tick(d)

SpecItemsClock == ClockInit /\ [][ClockNext]_vars

----------------------------------------------------------------------------
(* Claims about accounts *)

EmailHeld(e) == \E i \in DOMAIN users : users[i].email = e
InvalidCredentials == Resp("login", 200, "Invalid credentials", "login.html")

\* C1: in every step of any interleaving of register requests the stored users have
\* pairwise different emails, and a register request whose email a stored user
\* holds creates no user and answers "Email already registered!", so exactly one
\* user with that email persists.
C1_UniqueEmail ==
    [][ /\ \A i, j \in DOMAIN users' : users'[i].email = users'[j].email => i = j
        /\ \A c \in Clients, n \in Names, e \in Emails, p \in Passwords :
              (last'.op = "register" /\ EmailHeld(e) /\ register_query(c, n, e, p)) =>
                 /\ users' = users
                 /\ pending'[c] = None
                 /\ last'.flash = "Email already registered!"
                 /\ Cardinality({i \in DOMAIN users' : users'[i].email = e}) = 1
      ]_vars

\* C1 witness: a duplicate registration has been refused while a user is stored
C1_Witness ==
    /\ last.flash = "Email already registered!"
    /\ Len(users) >= 1

\* C6 as stated: a login with a stored user's email and a password that does not
\* match reports InvalidCredentials, after it no session is bound to that user, and
\* the report is the one given for an unknown email.
C6_Original ==
    [][ \A c \in Clients, e \in Emails, p \in Passwords :
          (last'.op = "login" /\ EmailHeld(e) /\ login(c, e, p)
             /\ ~check_password_hash(users[UserByEmail(e)].password, p)) =>
                /\ last' = InvalidCredentials
                /\ \A k \in Clients : session'[k] # UserByEmail(e)
      ]_vars

\* C6 amended: a login with a stored user's email and a password that does not match
\* reports InvalidCredentials and leaves every session as it was (an anonymous
\* browser stays anonymous); a login with an unknown email gets the same report.
C6_NoSessionEstablished ==
    [][ \A c \in Clients, e \in Emails, p \in Passwords :
          /\ (last'.op = "login" /\ EmailHeld(e) /\ login(c, e, p)
                /\ ~check_password_hash(users[UserByEmail(e)].password, p)) =>
                   /\ last' = InvalidCredentials
                   /\ session' = session
          /\ (last'.op = "login" /\ ~EmailHeld(e) /\ login(c, e, p)) =>
                   /\ last' = InvalidCredentials
                   /\ session' = session
      ]_vars

\* C6 witness: a login has been refused while a browser holds a session
C6_Witness ==
    /\ last = InvalidCredentials
    /\ \E c \in Clients : session[c] # 0

----------------------------------------------------------------------------
(* Claims about reset tokens *)

ResetDone == Resp("reset_password", 302,
                  "Password reset successful! Please log in.", "login")
ResetRefused == Resp("reset_password", 302,
                     "Invalid or expired reset link!", "SignatureExpired")

\* C4 as stated: an issued token is accepted exactly when its age is at most 3600 s;
\* refused, the stored password is unchanged; accepted with matching passwords, the
\* stored hash is replaced and the old password no longer authenticates.
C4_Original ==
    [][ last'.op = "reset_password" =>
        \A t \in issued, p \in Passwords, s \in Salts :
          reset_password(t, "POST", p, p, s) =>
             IF now - t.ts <= 3600
             THEN /\ last' = ResetDone
                  /\ check_password_hash(users'[t.uid].password, p)
                  /\ \A old \in Passwords :
                        check_password_hash(users[t.uid].password, old) =>
                           ~check_password_hash(users'[t.uid].password, old)
             ELSE /\ last' = ResetRefused
                  /\ users' = users
      ]_vars

\* C4 amended: as stated, except that the old password stops authenticating when the
\* new password differs from it (a reset to the same password keeps it valid); the
\* other users' rows are untouched.
C4_TokenWindow ==
    [][ last'.op = "reset_password" =>
        \A t \in issued, p \in Passwords, s \in Salts :
          reset_password(t, "POST", p, p, s) =>
             IF now - t.ts <= 3600
             THEN /\ last' = ResetDone
                  /\ check_password_hash(users'[t.uid].password, p)
                  /\ \A old \in Passwords \ {p} :
                        ~check_password_hash(users'[t.uid].password, old)
                  /\ \A i \in DOMAIN users : i # t.uid => users'[i] = users[i]
             ELSE /\ last' = ResetRefused
                  /\ users' = users
      ]_vars

\* C4 witness: a token is refused as expired 3601 s after it was issued
C4_Witness ==
    /\ last = ResetRefused
    /\ \E t \in issued : now - t.ts = 3601

\* C5 as stated: once a reset with a token has succeeded, every later reset request
\* with the same token is refused and leaves the stored passwords unchanged.
C5_SingleUse ==
    [][ last'.op = "reset_password" =>
        \A t \in consumed, p \in Passwords, s \in Salts :
          reset_password(t, "POST", p, p, s) =>
             /\ last' # ResetDone
             /\ users' = users
      ]_vars

----------------------------------------------------------------------------
(* Claims about items *)

Owner(c, i) == i \in DOMAIN items /\ current_user(c) # 0
                  /\ items[i].user_id = current_user(c)
NonOwner(c, i) == i \in DOMAIN items /\ current_user(c) # 0
                     /\ items[i].user_id # current_user(c)

\* C2 as stated: a toggle request by a logged-in user who does not own the item
\* reports Forbidden (the notice and a redirect, or status 403 for an AJAX-style
\* request) and leaves the store unchanged.
C2_NonOwnerForbidden ==
    [][ \A c \in Clients, i \in ItemIds, ajax \in BOOLEAN :
          (last'.op = "update_status" /\ NonOwner(c, i) /\ update_status(c, i, ajax)) =>
             /\ items' = items /\ users' = users
             /\ IF ajax
                THEN last'.status = 403
                ELSE last'.flash = "You are not allowed to update this item."
      ]_vars

\* C7 as stated: an AJAX-style toggle request answers with JSON carrying the new
\* boolean when the requester owns the item and with status 403 and a JSON body
\* when not; without the header the request answers with a redirect and a notice.
C7_AjaxResponse ==
    [][ \A c \in Clients, i \in ItemIds, ajax \in BOOLEAN :
          /\ (last'.op = "update_status" /\ Owner(c, i) /\ update_status(c, i, ajax)) =>
                /\ items'[i].is_resolved = ~items[i].is_resolved
                /\ IF ajax
                   THEN last'.status = 200
                          /\ last'.body = [is_resolved |-> items'[i].is_resolved]
                   ELSE last'.status = 302 /\ last'.flash = "Item status updated"
          /\ (last'.op = "update_status" /\ NonOwner(c, i) /\ update_status(c, i, ajax)) =>
                IF ajax
                THEN last'.status = 403 /\ last'.body = [error |-> "Not allowed"]
                ELSE last'.status = 302
                       /\ last'.flash = "You are not allowed to update this item."
      ]_vars

\* C3: a delete request by the item's owner removes the row and a lookup of an id
\* with no row answers 404; a delete request by another logged-in user reports
\* Forbidden and leaves the row, which a lookup still returns.
C3_DeleteIffOwner ==
    [][ /\ last'.op = "delete_item" =>
              \A c \in Clients, i \in ItemIds :
                 /\ (Owner(c, i) /\ delete_item(c, i)) =>
                       /\ i \notin DOMAIN items'
                       /\ \A j \in DOMAIN items \ {i} :
                             j \in DOMAIN items' /\ items'[j] = items[j]
                 /\ (NonOwner(c, i) /\ delete_item(c, i)) =>
                       /\ last'.flash = "You are not allowed to delete this item."
                       /\ items' = items
        /\ last'.op = "item_detail" =>
              \A c \in Clients, i \in ItemIds :
                 (current_user(c) # 0 /\ item_detail(c, i)) =>
                    IF i \in DOMAIN items
                    THEN last'.status = 200 /\ last'.body = items[i]
                    ELSE last'.status = 404
      ]_vars

\* C3 witness: after deletes by owners a lookup has answered 404 while another
\* user's row is still stored
C3_Witness ==
    /\ last.op = "item_detail" /\ last.status = 404
    /\ 1 \notin DOMAIN items
    /\ 2 \in DOMAIN items

\* C8: a toggle request by the item's owner, plain or AJAX-style, sets is_resolved
\* to the negation of its value, so it is never a no-op and a second one restores
\* the value; the other rows and the other fields are untouched.
C8_ToggleFlips ==
    [][ last'.op = "update_status" =>
          \A c \in Clients, i \in ItemIds, ajax \in BOOLEAN :
             (Owner(c, i) /\ update_status(c, i, ajax)) =>
                /\ items'[i].is_resolved = ~items[i].is_resolved
                /\ items' # items
                /\ [items' EXCEPT ![i].is_resolved = ~items'[i].is_resolved] = items
      ]_vars

\* C8 witness: the last request was a toggle and no row is resolved, so the row it
\* toggled has been toggled twice
C8_Witness ==
    /\ last.flash = "Item status updated"
    /\ DOMAIN items # {}
    /\ \A i \in DOMAIN items : ~items[i].is_resolved

\* the store of the example: the user owns exactly 2 Lost and 1 Found rows, one of
\* them resolved, and other users own rows too
Example(uid) ==
    /\ Cardinality({i \in DOMAIN items :
                      items[i].user_id = uid /\ items[i].type = "Lost"}) = 2
    /\ Cardinality({i \in DOMAIN items :
                      items[i].user_id = uid /\ items[i].type = "Found"}) = 1
    /\ Cardinality({i \in DOMAIN items :
                      items[i].user_id = uid /\ items[i].is_resolved}) = 1
    /\ \E i \in DOMAIN items : items[i].user_id # uid

Counts(uid) ==
    [total    |-> Cardinality(DOMAIN items),
     lost     |-> Cardinality({i \in DOMAIN items : items[i].type = "Lost"}),
     found    |-> Cardinality({i \in DOMAIN items : items[i].type = "Found"}),
     resolved |-> Cardinality({i \in DOMAIN items : items[i].is_resolved}),
     mine     |-> Cardinality({i \in DOMAIN items : items[i].user_id = uid})]

\* C9 as stated: the dashboard's stats are the five counts, and in the store of the
\* example they are lost=2, found=1, resolved>=1, total>=3, mine=3.
C9_Original ==
    [][ \A c \in Clients :
          (last'.op = "dashboard" /\ current_user(c) # 0 /\ dashboard(c)) =>
             /\ last'.body = Counts(current_user(c))
             /\ Example(current_user(c)) =>
                   /\ last'.body.lost = 2 /\ last'.body.found = 1
                   /\ last'.body.resolved >= 1 /\ last'.body.total >= 3
                   /\ last'.body.mine = 3
      ]_vars

\* C9 amended: the dashboard's stats are the five counts over the whole store, and in
\* the store of the example they are lost>=2, found>=1, resolved>=1, total>=3,
\* mine=3: lost and found count the other users' rows too.
C9_Stats ==
    [][ \A c \in Clients :
          (last'.op = "dashboard" /\ current_user(c) # 0 /\ dashboard(c)) =>
             /\ last'.body = Counts(current_user(c))
             /\ Example(current_user(c)) =>
                   /\ last'.body.lost >= 2 /\ last'.body.found >= 1
                   /\ last'.body.resolved >= 1 /\ last'.body.total >= 3
                   /\ last'.body.mine = 3
      ]_vars

\* C9 witness: the dashboard has been served to user 1 in the store of the example
C9_Witness ==
    /\ last.op = "dashboard" /\ last.status = 200
    /\ Example(1)
    /\ last.body.mine = 3

\* C10: a new row gets date_reported = the time of creation and user_id = the
\* creating session's user; no request changes these two fields of a stored row,
\* and a toggle request changes nothing but is_resolved of the row it names.
C10_DateAndOwnerFixed ==
    [][ /\ items' # items =>
              \A i \in DOMAIN items \cap DOMAIN items' :
                 /\ items'[i].date_reported = items[i].date_reported
                 /\ items'[i].user_id = items[i].user_id
        /\ last'.op = "add_item" =>
              \A c \in Clients, t \in ItemTypes :
                 (current_user(c) # 0 /\ add_item(c, t)) =>
                    /\ DOMAIN items' = DOMAIN items \cup {NextItemId}
                    /\ NextItemId \notin DOMAIN items
                    /\ items'[NextItemId].date_reported = now
                    /\ items'[NextItemId].user_id = current_user(c)
                    /\ \A i \in DOMAIN items : items'[i] = items[i]
        /\ (last'.op = "update_status" /\ items' # items) =>
              \A c \in Clients, i \in ItemIds, ajax \in BOOLEAN :
                 update_status(c, i, ajax) =>
                    /\ DOMAIN items' = DOMAIN items
                    /\ \A j \in DOMAIN items :
                          /\ j # i => items'[j] = items[j]
                          /\ items'[j].type = items[j].type
      ]_vars

\* C10 witness: a row created before the clock advanced has been toggled and keeps
\* its date, beside a row of the other user created after
C10_Witness ==
    /\ last.flash = "Item status updated"
    /\ \E i, j \in DOMAIN items :
          /\ items[i].is_resolved
          /\ items[i].date_reported < items[j].date_reported
          /\ items[i].user_id # items[j].user_id

====
